---- MODULE Spec2Model ----
(***************************************************************************)
(* Vector Index of web_whisper: the four storage backends                  *)
(*   milvus    src/lib/database-milvus.ts                                  *)
(*   chroma    src/lib/database-chroma.ts (first version in the bundle)    *)
(*   pgvector  src/lib/database.ts                                         *)
(*   simple    src/lib/database-simple.ts                                  *)
(* and the operations upsert (storeWebsiteChunks / storeWebsiteData),      *)
(* search (searchSimilarContent) and deleteSource (deleteWebsiteData).     *)
(*                                                                         *)
(* Numbers.  Similarities and distances are kept in hundredths (One = 1.0) *)
(* and vector components in tenths, so that a squared L2 distance is the   *)
(* plain integer sum of squared component differences.  All vectors of the *)
(* pool have norm 1.0, which makes 100 * cosine an integer as well.        *)
(* EMBEDDING_DIMENSION (768) and batchSize (100) are scaled down to 2.     *)
(*                                                                         *)
(* Requests.  SpecReq adds the routes that call the index, one request at  *)
(* a time:                                                                 *)
(*   kb     src/app/api/kb/search/route.ts  (Milvus)                       *)
(*   chat   src/app/api/chat/route.ts       (ChromaDB)                     *)
(*   crawl  src/app/api/crawl/route.ts      (ChromaDB)                     *)
(* and checkCollectionData called on its own.  A query text is the         *)
(* sequence of its characters; req.trace records the stages a request has  *)
(* completed.  maxSearchResults (15 : 10) and topCount (7 : 5) of the kb   *)
(* route are scaled to 3 : 2 and 2 : 1, its threshold 0.2 is 20.           *)
(*                                                                         *)
(* Query text.  SpecText applies cleanQuery, extractKeyTerms and the       *)
(* choice of searchQuery of the kb route to transcriptions built from a    *)
(* few tokens and to some fixed questions; txt holds the last result.      *)
(*                                                                         *)
(* Sources.  getAllWebsites (Milvus and ChromaDB only) is part of Spec;    *)
(* sites holds its last answer.                                            *)
(*                                                                         *)
(* Initialization.  SpecInit runs initializeDatabase of milvus, chroma and *)
(* pgvector step by step for one caller, with a failure possible between   *)
(* steps; SpecInitConc interleaves two callers.  coll is the collection    *)
(* (or table) as the server holds it.                                      *)
(*                                                                         *)
(* Homepage.  SpecPage is startVoiceChat of src/app/homepage/page.tsx;     *)
(* page holds the component state.                                         *)
(***************************************************************************)
EXTENDS Integers, Sequences, FiniteSets, TLC

\* ---------------------------------------------------------------- bounds
MaxTime == 2        \* Date.now() ranges over 1..MaxTime
MaxRows == 3        \* rows the collection may hold
MaxSerial == 4      \* values the SERIAL sequence of content_chunks may hand out
MaxTokens == 4      \* tokens of a generated transcription
MaxInit == 3        \* calls of initializeDatabase
MaxAlerts == 5      \* alerts the homepage may have shown

\* ------------------------------------------------------------- constants
One == 100
EMBEDDING_DIMENSION == 2
batchSize == 2
RelaxCount == 3

Backends == {"milvus", "chroma", "pgvector", "simple"}
Procs == {1, 2}
Urls == {"u1", "u2"}

\* ---------------------------------------------------------------- inputs
cA == [content |-> "a", embedding |-> <<10, 0>>]
cB == [content |-> "b", embedding |-> <<8, 6>>]
cC == [content |-> "c", embedding |-> <<0, 10>>]
cShort == [content |-> "s", embedding |-> <<10>>]

ChunkLists == { <<cB>>, <<cA, cB, cC>>, <<cShort>> }

Queries == { <<10, 0>>, <<8, 6>>, <<0, 10>>, <<10>> }
Limits == {1, 5}
Thresholds == {50, 70}

\* --------------------------------------------------------------- helpers
Min(a, b) == IF a < b THEN a ELSE b

Range(s) == { s[k] : k \in 1..Len(s) }

RECURSIVE SumTo(_, _)
SumTo(f, n) == IF n = 0 THEN 0 ELSE f[n] + SumTo(f, n - 1)

Dot(a, b) == SumTo([k \in 1..Len(a) |-> a[k] * b[k]], Len(a))

\* Squared Euclidean distance, the score of MetricType.L2 and of Chroma's
\* default space, in hundredths.
SqL2(a, b) == SumTo([k \in 1..Len(a) |-> (a[k] - b[k]) * (a[k] - b[k])], Len(a))

Sqrt(n) == CHOOSE r \in 0..n : r * r <= n /\ (r + 1) * (r + 1) > n

\* Stable insertion sort of hits by ascending native distance (the order in
\* which the stores hand their nearest neighbours back).
RECURSIVE InsertAsc(_, _)
InsertAsc(x, s) ==
  IF s = <<>> THEN <<x>>
  ELSE IF x.distance < Head(s).distance THEN <<x>> \o s
  ELSE <<Head(s)>> \o InsertAsc(x, Tail(s))

RECURSIVE SortAsc(_)
SortAsc(s) ==
  IF s = <<>> THEN <<>>
  ELSE InsertAsc(s[Len(s)], SortAsc(SubSeq(s, 1, Len(s) - 1)))

\* Array.prototype.sort((a, b) => b.similarity - a.similarity), which is stable
RECURSIVE InsertDesc(_, _)
InsertDesc(x, s) ==
  IF s = <<>> THEN <<x>>
  ELSE IF x.similarity > Head(s).similarity THEN <<x>> \o s
  ELSE <<Head(s)>> \o InsertDesc(x, Tail(s))

RECURSIVE SortDesc(_)
SortDesc(s) ==
  IF s = <<>> THEN <<>>
  ELSE InsertDesc(s[Len(s)], SortDesc(SubSeq(s, 1, Len(s) - 1)))

Slice(s, n) == SubSeq(s, 1, Min(n, Len(s)))

\* ------------------------------------------------------------ query text
\* A text is the sequence of its characters.
LowerCase == <<"a", "b", "c", "d", "e", "f", "g", "h", "i", "j", "k", "l", "m",
               "n", "o", "p", "q", "r", "s", "t", "u", "v", "w", "x", "y", "z">>
UpperCase == <<"A", "B", "C", "D", "E", "F", "G", "H", "I", "J", "K", "L", "M",
               "N", "O", "P", "Q", "R", "S", "T", "U", "V", "W", "X", "Y", "Z">>
Digits == {"0", "1", "2", "3", "4", "5", "6", "7", "8", "9"}

IsLower(c) == \E k \in 1..Len(LowerCase) : LowerCase[k] = c
IsUpper(c) == \E k \in 1..Len(UpperCase) : UpperCase[k] = c
\* [a-z] under the i flag
IsLetter(c) == IsLower(c) \/ IsUpper(c)
\* \w
IsWordChar(c) == IsLetter(c) \/ c \in Digits \/ c = "_"
\* \s
IsSpace(c) == c \in {" ", "\t", "\n"}
\* [?.,!]
IsPunct(c) == c \in {"?", ".", ",", "!"}

toLowerCase(c) ==
  IF IsUpper(c) THEN LowerCase[CHOOSE k \in 1..Len(UpperCase) : UpperCase[k] = c] ELSE c

\* the character at position i, "" outside the text
At(s, i) == IF i \in 1..Len(s) THEN s[i] ELSE ""

\* first position from i on that holds no white space
RECURSIVE SkipSpaces(_, _)
SkipSpaces(s, i) == IF IsSpace(At(s, i)) THEN SkipSpaces(s, i + 1) ELSE i

\* last position of the run of word characters that starts at i
RECURSIVE WordEnd(_, _)
WordEnd(s, i) == IF IsWordChar(At(s, i + 1)) THEN WordEnd(s, i + 1) ELSE i

\* String.prototype.trim
RECURSIVE trim(_)
trim(s) ==
  IF s = <<>> THEN s
  ELSE IF IsSpace(s[1]) THEN trim(Tail(s))
  ELSE IF IsSpace(s[Len(s)]) THEN trim(SubSeq(s, 1, Len(s) - 1))
  ELSE s

\* replace(/\s+/g, ' ')
RECURSIVE CollapseSpaces(_)
CollapseSpaces(s) ==
  IF s = <<>> THEN s
  ELSE IF IsSpace(s[1]) THEN <<" ">> \o CollapseSpaces(SubSeq(s, SkipSpaces(s, 1), Len(s)))
  ELSE <<s[1]>> \o CollapseSpaces(Tail(s))

\* positions of the letters of the longest chain (?:[a-z]\s+)* that starts at p
RECURSIVE PairLetters(_, _)
PairLetters(s, p) ==
  IF IsLetter(At(s, p)) /\ IsSpace(At(s, p + 1))
  THEN <<p>> \o PairLetters(s, SkipSpaces(s, p + 1))
  ELSE <<>>

\* the letters at the positions ps, joined and lower-cased
JoinLower(s, ps) == [k \in 1..Len(ps) |-> toLowerCase(s[ps[k]])]

NoMatch == [ok |-> FALSE, last |-> 0, letters |-> <<>>, punct |-> ""]

\* (?:[a-z]\s+){2,}[a-z]\s*[?.,!]? matched at p, as the first group after the
\* word of wordThenLetters: greedy, giving one pair back when the chain is not
\* followed by a letter.
LettersAfterWord(s, p) ==
  LET ps == PairLetters(s, p)
      n == Len(ps)
      after == IF n = 0 THEN p ELSE SkipSpaces(s, ps[n] + 1)
      full == n >= 2 /\ IsLetter(At(s, after))
      letters == IF full THEN Append(ps, after) ELSE ps
      final == IF full THEN after ELSE ps[n]
      sp == SkipSpaces(s, final + 1)
  IN IF ~full /\ n < 3 THEN NoMatch
     ELSE IF IsPunct(At(s, sp))
          THEN [ok |-> TRUE, last |-> sp, letters |-> letters, punct |-> s[sp]]
          ELSE [ok |-> TRUE, last |-> sp - 1, letters |-> letters, punct |-> ""]

\* /(\b\w+\b)\s*[,]?\s*((?:[a-z]\s+){2,}[a-z]\s*[?.,!]?)/gi matched at i
MatchWordThenLetters(s, i) ==
  IF ~(IsWordChar(At(s, i)) /\ ~IsWordChar(At(s, i - 1))) THEN NoMatch
  ELSE LET j == WordEnd(s, i)
           k0 == SkipSpaces(s, j + 1)
           k1 == IF At(s, k0) = "," THEN k0 + 1 ELSE k0
           m == LettersAfterWord(s, SkipSpaces(s, k1))
       IN IF m.ok THEN [m EXCEPT !.letters = <<SubSeq(s, i, j), m.letters>>] ELSE NoMatch

\* the replace callback of wordThenLetters: `${word} ${combined}` when every
\* part of the letters is a single letter, else the match itself
RECURSIVE ReplaceWordThenLetters(_, _)
ReplaceWordThenLetters(s, i) ==
  IF i > Len(s) THEN <<>>
  ELSE LET m == MatchWordThenLetters(s, i)
       IN IF ~m.ok THEN <<s[i]>> \o ReplaceWordThenLetters(s, i + 1)
          ELSE (IF m.punct \in {"", ","}
                THEN m.letters[1] \o <<" ">> \o JoinLower(s, m.letters[2])
                ELSE SubSeq(s, i, m.last))
               \o ReplaceWordThenLetters(s, m.last + 1)

\* the tail \s*[?.,!]?\b of letterSequence after the final letter at f
LetterSequenceTail(s, f) ==
  LET sp == SkipSpaces(s, f + 1)
  IN IF IsPunct(At(s, sp)) /\ IsWordChar(At(s, sp + 1))
       THEN [ok |-> TRUE, last |-> sp, punct |-> s[sp]]
     ELSE IF sp - 1 > f /\ IsWordChar(At(s, sp))
       THEN [ok |-> TRUE, last |-> sp - 1, punct |-> ""]
     ELSE IF ~IsWordChar(At(s, f + 1))
       THEN [ok |-> TRUE, last |-> f, punct |-> ""]
     ELSE [ok |-> FALSE, last |-> 0, punct |-> ""]

\* letterSequence with m pairs out of the chain ps (m counts down from Len(ps))
RECURSIVE LetterSequenceWith(_, _, _)
LetterSequenceWith(s, ps, m) ==
  IF m < 2 THEN NoMatch
  ELSE LET n == Len(ps)
           after == SkipSpaces(s, ps[n] + 1)
           hasFinal == m < n \/ IsLetter(At(s, after))
           final == IF m < n THEN ps[m + 1] ELSE after
           t == LetterSequenceTail(s, final)
       IN IF hasFinal /\ t.ok
          THEN [ok |-> TRUE, last |-> t.last,
                letters |-> Append(SubSeq(ps, 1, m), final), punct |-> t.punct]
          ELSE LetterSequenceWith(s, ps, m - 1)

\* /\b((?:[a-z]\s+){2,}[a-z]\s*[?.,!]?)\b/gi matched at i
MatchLetterSequence(s, i) ==
  IF ~(IsLetter(At(s, i)) /\ ~IsWordChar(At(s, i - 1))) THEN NoMatch
  ELSE LET ps == PairLetters(s, i)
       IN LetterSequenceWith(s, ps, Len(ps))

\* the replace callback of letterSequence
RECURSIVE ReplaceLetterSequence(_, _)
ReplaceLetterSequence(s, i) ==
  IF i > Len(s) THEN <<>>
  ELSE LET m == MatchLetterSequence(s, i)
       IN IF ~m.ok THEN <<s[i]>> \o ReplaceLetterSequence(s, i + 1)
          ELSE (IF m.punct = "" THEN JoinLower(s, m.letters) ELSE SubSeq(s, i, m.last))
               \o ReplaceLetterSequence(s, m.last + 1)

\* cleanQuery of the knowledge-base route
cleanQuery(query) ==
  IF query = <<>> THEN query
  ELSE CHOOSE result \in
         { trim(CollapseSpaces(afterLetters)) :
             afterLetters \in
               { ReplaceLetterSequence(afterWord, 1) :
                   afterWord \in
                     { ReplaceWordThenLetters(cleaned, 1) :
                         cleaned \in {CollapseSpaces(trim(query))} } } } : TRUE

\* /[A-Z][a-z]+(?:\s+[A-Z][a-z]+)+/ matches somewhere in the text
RECURSIVE LowerRunEnd(_, _)
LowerRunEnd(s, i) == IF IsLower(At(s, i + 1)) THEN LowerRunEnd(s, i + 1) ELSE i

CapitalizedAt(s, i) == IsUpper(At(s, i)) /\ IsLower(At(s, i + 1))

hasName(query) ==
  \E i \in 1..Len(query) :
    /\ CapitalizedAt(query, i)
    /\ LET e == LowerRunEnd(query, i + 1)
       IN IsSpace(At(query, e + 1)) /\ CapitalizedAt(query, SkipSpaces(query, e + 1))

\* query.split(/\s+/).length
WordCount(s) ==
  Cardinality({ i \in 1..Len(s) : IsSpace(s[i]) /\ ~IsSpace(At(s, i - 1)) }) + 1

isShortQuery(query) == WordCount(query) <= 5

\* extractKeyTerms of the knowledge-base route
stopWords ==
  {<<"t", "h", "e">>, <<"a">>, <<"a", "n">>, <<"a", "n", "d">>,
    <<"o", "r">>, <<"b", "u", "t">>, <<"i", "n">>, <<"o", "n">>,
    <<"a", "t">>, <<"t", "o">>, <<"f", "o", "r">>, <<"o", "f">>,
    <<"w", "i", "t", "h">>, <<"b", "y">>, <<"f", "r", "o", "m">>,
    <<"a", "s">>, <<"i", "s">>, <<"w", "a", "s">>, <<"a", "r", "e">>,
    <<"w", "e", "r", "e">>, <<"b", "e">>, <<"b", "e", "e", "n">>,
    <<"b", "e", "i", "n", "g">>, <<"h", "a", "v", "e">>, <<"h", "a", "s">>,
    <<"h", "a", "d">>, <<"d", "o">>, <<"d", "o", "e", "s">>,
    <<"d", "i", "d">>, <<"w", "i", "l", "l">>, <<"w", "o", "u", "l", "d">>,
    <<"s", "h", "o", "u", "l", "d">>, <<"c", "o", "u", "l", "d">>,
    <<"m", "a", "y">>, <<"m", "i", "g", "h", "t">>, <<"m", "u", "s", "t">>,
    <<"c", "a", "n">>, <<"t", "h", "i", "s">>, <<"t", "h", "a", "t">>,
    <<"t", "h", "e", "s", "e">>, <<"t", "h", "o", "s", "e">>, <<"i">>,
    <<"y", "o", "u">>, <<"h", "e">>, <<"s", "h", "e">>, <<"i", "t">>,
    <<"w", "e">>, <<"t", "h", "e", "y">>, <<"w", "h", "a", "t">>,
    <<"w", "h", "e", "r", "e">>, <<"w", "h", "e", "n">>, <<"w", "h", "y">>,
    <<"h", "o", "w">>, <<"t", "e", "l", "l">>, <<"m", "e">>,
    <<"a", "b", "o", "u", "t">>, <<"a", "m">>, <<"n", "o", "t">>,
    <<"n", "o">>, <<"y", "e", "s">>, <<"y", "e", "a", "h">>, <<"u", "m">>,
    <<"u", "h">> }

TopTerms == 10

\* [A-Z][a-z]+ at i: its last position, 0 when there is none
CapitalizedEnd(s, i) == IF CapitalizedAt(s, i) THEN LowerRunEnd(s, i + 1) ELSE 0

\* ends of the chain [A-Z][a-z]+(?:\s+[A-Z][a-z]+)* whose first word ends at e,
\* the longest first
RECURSIVE ChainEnds(_, _)
ChainEnds(s, e) ==
  IF IsSpace(At(s, e + 1)) /\ CapitalizedEnd(s, SkipSpaces(s, e + 1)) # 0
  THEN ChainEnds(s, CapitalizedEnd(s, SkipSpaces(s, e + 1))) \o <<e>>
  ELSE <<e>>

\* /\b[A-Z][a-z]+(?:\s+[A-Z][a-z]+)*\b/ matched at i: the end of the match, 0
\* when there is none
MatchCapitalized(s, i) ==
  IF IsWordChar(At(s, i - 1)) \/ CapitalizedEnd(s, i) = 0 THEN 0
  ELSE LET ends == SelectSeq(ChainEnds(s, CapitalizedEnd(s, i)),
                             LAMBDA e : ~IsWordChar(At(s, e + 1)))
       IN IF ends = <<>> THEN 0 ELSE ends[1]

\* text.match(/../g) || []
RECURSIVE capitalizedWords(_, _)
capitalizedWords(s, i) ==
  IF i > Len(s) THEN <<>>
  ELSE IF MatchCapitalized(s, i) = 0 THEN capitalizedWords(s, i + 1)
  ELSE <<SubSeq(s, i, MatchCapitalized(s, i))>>
         \o capitalizedWords(s, MatchCapitalized(s, i) + 1)

LowerText(s) == [k \in 1..Len(s) |-> toLowerCase(s[k])]

\* replace(/[^\w\s]/g, ' ')
RemovePunctuation(s) ==
  [k \in 1..Len(s) |-> IF IsWordChar(s[k]) \/ IsSpace(s[k]) THEN s[k] ELSE " "]

\* last position of the run without white space that starts at i
RECURSIVE PartEnd(_, _)
PartEnd(s, i) == IF i < Len(s) /\ ~IsSpace(s[i + 1]) THEN PartEnd(s, i + 1) ELSE i

\* split(/\s+/), without the empty strings it gives at the ends
RECURSIVE SplitSpaces(_, _)
SplitSpaces(s, i) ==
  IF i > Len(s) THEN <<>>
  ELSE IF IsSpace(s[i]) THEN SplitSpaces(s, i + 1)
  ELSE <<SubSeq(s, i, PartEnd(s, i))>> \o SplitSpaces(s, PartEnd(s, i) + 1)

\* Array.from(new Set(allTerms))
RECURSIVE Unique(_)
Unique(ts) ==
  IF ts = <<>> THEN <<>>
  ELSE LET rest == Unique(SubSeq(ts, 1, Len(ts) - 1))
       IN IF ts[Len(ts)] \in Range(rest) THEN rest ELSE Append(rest, ts[Len(ts)])

\* sort((a, b) => b.length - a.length): stable, longer terms first
InsertByLength(t, sorted) ==
  LET n == Cardinality({ k \in 1..Len(sorted) : Len(sorted[k]) >= Len(t) })
  IN SubSeq(sorted, 1, n) \o <<t>> \o SubSeq(sorted, n + 1, Len(sorted))

RECURSIVE SortByLength(_)
SortByLength(ts) ==
  IF ts = <<>> THEN <<>>
  ELSE InsertByLength(ts[Len(ts)], SortByLength(SubSeq(ts, 1, Len(ts) - 1)))

\* join(' ')
RECURSIVE Join(_)
Join(ts) ==
  IF ts = <<>> THEN <<>>
  ELSE IF Len(ts) = 1 THEN ts[1]
  ELSE ts[1] \o <<" ">> \o Join(Tail(ts))

\* the terms extractKeyTerms joins: capitalized names first, then the other
\* words, without duplicates, the longest ten
KeyTerms(text) ==
  CHOOSE terms \in
    { Slice(SortByLength(Unique(names \o words)), TopTerms) :
        names \in { [k \in 1..Len(caps) |-> LowerText(caps[k])] :
                      caps \in {capitalizedWords(text, 1)} },
        words \in { SelectSeq(parts, LAMBDA w : Len(w) > 2 /\ w \notin stopWords) :
                      parts \in {SplitSpaces(RemovePunctuation(LowerText(text)), 1)} } } : TRUE

extractKeyTerms(text) == Join(KeyTerms(text))

\* A choice of searchQuery that always extracts.
searchQueryAlwaysExtracted(query) ==
  IF extractKeyTerms(query) # <<>> THEN extractKeyTerms(query) ELSE query

\* searchQuery: the query itself when it holds a name or is short, else its
\* key terms (the query when there are none)
searchQueryOf(query) ==
  IF hasName(query) \/ isShortQuery(query) THEN query
  ELSE IF extractKeyTerms(query) # <<>> THEN extractKeyTerms(query) ELSE query

\* ----------------------------------------------------------------- state
VARIABLES
  backend,     \* the backend this deployment runs on
  now,         \* Date.now()
  rows,        \* the collection / content_chunks table, in insertion order
  chromaDim,   \* dimension the Chroma collection is bound to (0: not yet)
  serial,      \* last value handed out by content_chunks_id_seq
  call,        \* per caller: the Vector Index call in flight
  lastSearch,  \* what the search call that has just returned gave back
  gone,        \* urls deleted by deleteSource and not ingested since
  req,         \* the retrieval request (knowledge-base search, chat) in flight
  crawl,       \* the crawl request in flight
  txt,         \* the text a query function was applied to, and what it gave
  sites,       \* what the getAllWebsites call that has just returned gave back
  coll,        \* the collection / schema, and per caller its initializeDatabase call
  page         \* the homepage: its React state and the startVoiceChat call in flight

vars == <<backend, now, rows, chromaDim, serial, call, lastSearch, gone, req, crawl,
          txt, sites, coll, page>>

IdleCall == [op |-> "none", pc |-> "idle", url |-> "", chunks |-> <<>>,
             base |-> 0, i |-> 0, ins |-> <<>>, old |-> <<>>, conc |-> FALSE]

Caller == CHOOSE p \in Procs : \A q \in Procs : p <= q

\* Callers are anonymous: caller p is used only while all callers below it
\* are busy.
Free(p) == call[p].pc = "idle" /\ \A q \in Procs : q < p => call[q].pc # "idle"

NoSearch == [status |-> "none", query |-> <<>>, limit |-> 0, threshold |-> 0,
             results |-> <<>>]

NoHealth == [failed |-> {}, raised |-> FALSE, hasData |-> FALSE, count |-> 0]
NoResponse == [status |-> 0, body |-> "", documents |-> <<>>]

NoInput == [kind |-> "", secret |-> FALSE, signature |-> "none"]

IdleReq == [route |-> "none", pc |-> "idle", input |-> NoInput, query |-> <<>>,
            hasName |-> FALSE,
            trace |-> <<>>, health |-> NoHealth, embedding |-> <<>>, topK |-> 0,
            threshold |-> 0, candidates |-> <<>>, response |-> NoResponse]

IdleCrawl == [pc |-> "idle", url |-> "", chunks |-> <<>>, failed |-> FALSE,
              atFailure |-> <<>>, response |-> [status |-> 0, stored |-> FALSE]]

NoText == [op |-> "none", text |-> <<>>, result |-> <<>>, terms |-> <<>>,
           hasName |-> FALSE, isShortQuery |-> FALSE]
NoSites == [status |-> "none", websites |-> <<>>]
IdleInit == [pc |-> "idle", before |-> <<FALSE, FALSE, FALSE>>]
NoCollection == [exists |-> FALSE, indexed |-> FALSE, loaded |-> FALSE, created |-> 0,
                 calls |-> 0, init |-> [p \in Procs |-> IdleInit]]
IdlePage == [pc |-> "idle", url |-> "", isLoading |-> FALSE, crawlingStatus |-> "",
             alerts |-> 0, outcome |-> "none"]

Init ==
  /\ backend \in Backends
  /\ now = 1
  /\ rows = <<>>
  /\ chromaDim = 0
  /\ serial = 0
  /\ call = [p \in Procs |-> IdleCall]
  /\ lastSearch = NoSearch
  /\ gone = {}
  /\ req = IdleReq
  /\ crawl = IdleCrawl
  /\ txt = NoText
  /\ sites = NoSites
  /\ coll = NoCollection
  /\ page = IdlePage

\* The millisecond clock advances.
Tick ==
  /\ backend \in {"milvus", "chroma"}
  /\ now < MaxTime
  /\ now' = now + 1
  /\ UNCHANGED <<backend, rows, chromaDim, serial, call, lastSearch, gone, req, crawl, txt, sites, coll, page>>

\* The caller takes the result (or the exception) of its finished call.
Ack(p) ==
  /\ call[p].pc \in {"returned", "failed"}
  /\ call' = [call EXCEPT ![p] = IdleCall]
  /\ lastSearch' = IF call[p].op = "search" THEN NoSearch ELSE lastSearch
  /\ sites' = IF call[p].op = "websites" THEN NoSites ELSE sites
  /\ UNCHANGED <<backend, now, rows, chromaDim, serial, gone, req, crawl, txt, coll, page>>

\* An upsert of url u is between its start and its return.
Writing(q, u) ==
  call[q].op = "upsert" /\ call[q].url = u /\ call[q].pc \in {"insert", "add", "txn"}

\* Caller p starts the upsert c: it and every upsert of the same url that is
\* under way are marked as concurrent.
Started(p, c) ==
  [q \in Procs |->
     IF q = p THEN [c EXCEPT !.conc = \E r \in Procs \ {p} : Writing(r, c.url)]
     ELSE IF Writing(q, c.url) /\ c.pc # "failed" THEN [call[q] EXCEPT !.conc = TRUE]
     ELSE call[q]]

RowsOf(rs, u) == SelectSeq(rs, LAMBDA r : r.url = u)
RowsNotOf(rs, u) == SelectSeq(rs, LAMBDA r : r.url # u)
UrlsIn(s) == { s[k].url : k \in 1..Len(s) }

\* ------------------------------------------------------- milvus: upsert
\* entities of storeWebsiteChunks: id = baseTimestamp + index
MilvusEntities(u, cs, base) ==
  [k \in 1..Len(cs) |->
     [id |-> base + (k - 1), embedding |-> cs[k].embedding, url |-> u,
      content |-> cs[k].content, crawled_at |-> base]]

storeWebsiteChunks_Begin(p, u, cs) ==
  /\ backend = "milvus"
  /\ Free(p)
  /\ \/ call' = Started(p, [IdleCall EXCEPT !.op = "upsert", !.pc = "failed",
                                                    !.url = u, !.chunks = cs,
                                                    !.old = RowsOf(rows, u)])
     \/ call' = Started(p, [IdleCall EXCEPT !.op = "upsert", !.pc = "insert",
                                                    !.url = u, !.chunks = cs,
                                                    !.base = now,
                                                    !.old = RowsOf(rows, u)])
  /\ UNCHANGED <<backend, now, rows, chromaDim, serial, lastSearch, gone, req, crawl, txt, sites, coll, page>>

storeWebsiteChunks_Insert(p) ==
  LET c == call[p]
      entities == MilvusEntities(c.url, c.chunks, c.base)
      batch == SubSeq(entities, c.i + 1, Min(c.i + batchSize, Len(entities)))
  IN /\ backend = "milvus"
     /\ c.op = "upsert" /\ c.pc = "insert"
     /\ c.i < Len(entities)
     /\ \/ /\ call' = [call EXCEPT ![p].pc = "failed"]
           /\ UNCHANGED <<rows, lastSearch, gone>>
        \/ /\ \A k \in 1..Len(batch) : Len(batch[k].embedding) = EMBEDDING_DIMENSION
           /\ Len(rows) + Len(batch) <= MaxRows
           /\ rows' = rows \o batch
           /\ call' = [call EXCEPT ![p].i = c.i + batchSize]
           /\ lastSearch' = NoSearch
           /\ gone' = gone \ {c.url}
     /\ UNCHANGED <<backend, now, chromaDim, serial, req, crawl, txt, sites, coll, page>>

storeWebsiteChunks_Flush(p) ==
  LET c == call[p]
  IN /\ backend = "milvus"
     /\ c.op = "upsert" /\ c.pc = "insert"
     /\ c.i >= Len(c.chunks)
     /\ \/ call' = [call EXCEPT ![p].pc = "returned"]
        \/ call' = [call EXCEPT ![p].pc = "failed"]
     /\ UNCHANGED <<backend, now, rows, chromaDim, serial, lastSearch, gone, req, crawl, txt, sites, coll, page>>


\* ------------------------------------------------------- chroma: upsert
\* ids of storeWebsiteData: `${url}_chunk_${index}_${Date.now()}`
ChromaRecords(u, cs, base) ==
  [k \in 1..Len(cs) |->
     [id |-> <<u, k - 1, base>>, embedding |-> cs[k].embedding, url |-> u,
      content |-> cs[k].content, chunkIndex |-> k - 1, totalChunks |-> Len(cs),
      crawledAt |-> base]]

IdsIn(rs) == { rs[k].id : k \in 1..Len(rs) }

chromaStoreWebsiteData_Begin(p, u, cs) ==
  /\ backend = "chroma"
  /\ Free(p)
  /\ \/ call' = Started(p, [IdleCall EXCEPT !.op = "upsert", !.pc = "failed",
                                                    !.url = u, !.chunks = cs,
                                                    !.old = RowsOf(rows, u)])
     \/ /\ \A k \in 1..Len(cs) : Len(cs[k].embedding) # 0
        /\ call' = Started(p, [IdleCall EXCEPT !.op = "upsert", !.pc = "add",
                                                       !.url = u, !.chunks = cs,
                                                       !.base = now,
                                                       !.old = RowsOf(rows, u)])
  /\ UNCHANGED <<backend, now, rows, chromaDim, serial, lastSearch, gone, req, crawl, txt, sites, coll, page>>

\* collection.add: the collection takes the dimension of the first embedding
\* it is given and refuses any other afterwards; records whose id is already
\* present make the call fail or are skipped, depending on the server.
chromaStoreWebsiteData_Add(p) ==
  LET c == call[p]
      recs == ChromaRecords(c.url, c.chunks, c.base)
      dim == IF chromaDim = 0 THEN Len(recs[1].embedding) ELSE chromaDim
      fresh == SelectSeq(recs, LAMBDA r : r.id \notin IdsIn(rows))
  IN /\ backend = "chroma"
     /\ c.op = "upsert" /\ c.pc = "add"
     /\ \/ /\ call' = [call EXCEPT ![p].pc = "failed"]
           /\ UNCHANGED <<rows, chromaDim, lastSearch, gone>>
        \/ /\ \A k \in 1..Len(recs) : Len(recs[k].embedding) = dim
           /\ Len(rows) + Len(fresh) <= MaxRows
           /\ rows' = rows \o fresh
           /\ chromaDim' = dim
           /\ call' = [call EXCEPT ![p].pc = "returned", ![p].i = Len(recs)]
           /\ lastSearch' = NoSearch
           /\ gone' = IF fresh = <<>> THEN gone ELSE gone \ {c.url}
     /\ UNCHANGED <<backend, now, serial, req, crawl, txt, sites, coll, page>>

\* ---------------------------------------------- pgvector, simple: upsert
PgBackends == {"pgvector", "simple"}

\* The row of websites with this url is locked by an open transaction.
Locked(u) == \E q \in Procs : call[q].pc = "txn" /\ call[q].url = u

\* pool.connect, BEGIN, INSERT .. ON CONFLICT (url) DO UPDATE, DELETE
storeWebsiteData_Begin(p, u, cs) ==
  /\ backend \in PgBackends
  /\ Free(p)
  /\ \/ call' = Started(p, [IdleCall EXCEPT !.op = "upsert", !.pc = "failed",
                                                    !.url = u, !.chunks = cs,
                                                    !.old = RowsOf(rows, u)])
     \/ /\ ~Locked(u)
        /\ call' = Started(p, [IdleCall EXCEPT !.op = "upsert", !.pc = "txn",
                                                       !.url = u, !.chunks = cs,
                                                       !.old = RowsOf(rows, u)])
  /\ UNCHANGED <<backend, now, rows, chromaDim, serial, lastSearch, gone, req, crawl, txt, sites, coll, page>>

\* one INSERT INTO content_chunks of the loop; an error is answered by ROLLBACK
storeWebsiteData_Insert(p) ==
  LET c == call[p]
      chunk == c.chunks[c.i + 1]
  IN /\ backend \in PgBackends
     /\ c.op = "upsert" /\ c.pc = "txn"
     /\ c.i < Len(c.chunks)
     /\ \/ /\ call' = [call EXCEPT ![p].pc = "failed", ![p].ins = <<>>]
           /\ UNCHANGED serial
        \/ /\ backend = "pgvector" => Len(chunk.embedding) = EMBEDDING_DIMENSION
           /\ serial < MaxSerial
           /\ serial' = serial + 1
           /\ call' = [call EXCEPT ![p].i = c.i + 1,
                                   ![p].ins = Append(c.ins,
                                      [id |-> serial + 1, url |-> c.url,
                                       content |-> chunk.content,
                                       embedding |-> chunk.embedding])]
     /\ UNCHANGED <<backend, now, rows, chromaDim, lastSearch, gone, req, crawl, txt, sites, coll, page>>

\* COMMIT: the DELETE and the INSERTs of the transaction become visible
storeWebsiteData_Commit(p) ==
  LET c == call[p]
  IN /\ backend \in PgBackends
     /\ c.op = "upsert" /\ c.pc = "txn"
     /\ c.i >= Len(c.chunks)
     /\ \/ /\ call' = [call EXCEPT ![p].pc = "failed", ![p].ins = <<>>]
           /\ UNCHANGED <<rows, lastSearch, gone>>
        \/ /\ Len(RowsNotOf(rows, c.url)) + Len(c.ins) <= MaxRows
           /\ rows' = RowsNotOf(rows, c.url) \o c.ins
           /\ call' = [call EXCEPT ![p].pc = "returned", ![p].ins = <<>>]
           /\ lastSearch' = NoSearch
           /\ gone' = IF c.ins = <<>> THEN gone ELSE gone \ {c.url}
     /\ UNCHANGED <<backend, now, chromaDim, serial, req, crawl, txt, sites, coll, page>>

\* --------------------------------------------------------- deleteSource
\* A delete whose filter matches every entity.
DeleteByFilterAll(rs, u) == <<>>

\* client.delete({ filter: `url == "${url}"` })
DeleteByFilter(rs, u) == SelectSeq(rs, LAMBDA r : ~(r.url = u))

\* milvus: client.delete then client.flush
milvusDeleteWebsiteData(p, u) ==
  /\ backend = "milvus"
  /\ Free(p)
  /\ \/ /\ call' = [call EXCEPT ![p] = [IdleCall EXCEPT !.op = "delete", !.pc = "failed",
                                                       !.url = u]]
        /\ UNCHANGED <<rows, lastSearch, gone>>
     \/ /\ rows' = DeleteByFilter(rows, u)
        /\ lastSearch' = NoSearch
        /\ \/ /\ call' = [call EXCEPT ![p] = [IdleCall EXCEPT !.op = "delete",
                                                 !.pc = "returned", !.url = u,
                                                 !.old = rows]]
              /\ gone' = gone \cup {u}
           \/ /\ call' = [call EXCEPT ![p] = [IdleCall EXCEPT !.op = "delete",
                                                 !.pc = "failed", !.url = u]]
              /\ gone' = gone
  /\ UNCHANGED <<backend, now, chromaDim, serial, req, crawl, txt, sites, coll, page>>

\* chroma: collection.get({where: {url}}) then collection.delete({ids})
chromaDeleteWebsiteData(p, u) ==
  LET ids == IdsIn(RowsOf(rows, u))
  IN /\ backend = "chroma"
     /\ Free(p)
     /\ \/ /\ call' = [call EXCEPT ![p] = [IdleCall EXCEPT !.op = "delete",
                                              !.pc = "failed", !.url = u]]
           /\ UNCHANGED <<rows, lastSearch, gone>>
        \/ /\ rows' = IF Cardinality(ids) > 0
                      THEN SelectSeq(rows, LAMBDA r : r.id \notin ids)
                      ELSE rows
           /\ lastSearch' = NoSearch
           /\ call' = [call EXCEPT ![p] = [IdleCall EXCEPT !.op = "delete",
                                              !.pc = "returned", !.url = u,
                                              !.old = rows]]
           /\ gone' = gone \cup {u}
     /\ UNCHANGED <<backend, now, chromaDim, serial, req, crawl, txt, sites, coll, page>>


\* --------------------------------------------------------------- search
\* What a store hands back for a nearest-neighbour query: its rows by
\* ascending native distance, at most limit of them.
Nearest(rs, q, limit) ==
  Slice(SortAsc([k \in 1..Len(rs) |->
                   [row |-> rs[k], distance |-> SqL2(q, rs[k].embedding)]]), limit)

Item(r, sim) == [content |-> r.content, url |-> r.url, id |-> r.id, similarity |-> sim]

\* filter by threshold, else the top min(3, n) results anyway
Relaxed(allResults, thr) ==
  LET filteredResults == SelectSeq(allResults, LAMBDA x : x.similarity >= thr)
  IN IF Len(filteredResults) = 0 /\ Len(allResults) > 0
     THEN Slice(allResults, Min(RelaxCount, Len(allResults)))
     ELSE filteredResults

\* database-milvus.ts: distance = result.distance || result.score || 1
milvusSearchSimilarContent(rs, q, limit, thr) ==
  LET resultsArray == Nearest(rs, q, limit)
      allResults == [k \in 1..Len(resultsArray) |->
         LET score == resultsArray[k].distance
             distance == IF score # 0 THEN score ELSE One
         IN Item(resultsArray[k].row, One - distance)]
  IN Relaxed(allResults, thr)

\* database-chroma.ts: distance = results.distances?.[0]?.[index] ?? 1
chromaSearchSimilarContent(rs, q, limit, thr) ==
  LET res == Nearest(rs, q, limit)
      allResults == [k \in 1..Len(res) |-> Item(res[k].row, One - res[k].distance)]
  IN Relaxed(allResults, thr)

NaN == -1000000

\* database-simple.ts, in hundredths (rounded down when the norms' product is
\* not a square; exact on the pool)
cosineSimilarity(a, b) ==
  IF Len(a) # Len(b) THEN 0
  ELSE LET normA == Dot(a, a)
           normB == Dot(b, b)
       IN IF normA * normB = 0 THEN NaN
          ELSE (One * Dot(a, b)) \div Sqrt(normA * normB)

\* database-simple.ts: map, filter (> threshold), sort descending, slice
simpleSearchSimilarContent(rs, q, limit, thr) ==
  LET mapped == [k \in 1..Len(rs) |-> Item(rs[k], cosineSimilarity(q, rs[k].embedding))]
      kept == SelectSeq(mapped, LAMBDA x : x.similarity # NaN /\ x.similarity > thr)
  IN Slice(SortDesc(kept), limit)

\* <=> of pgvector: cosine distance
CosineDistance(a, b) == One - cosineSimilarity(a, b)

\* database.ts: WHERE 1 - (embedding <=> q) > threshold ORDER BY embedding <=> q LIMIT
pgSearchSimilarContent(rs, q, limit, thr) ==
  LET hits == SortAsc([k \in 1..Len(rs) |->
                 [row |-> rs[k], distance |-> CosineDistance(q, rs[k].embedding)]])
      kept == SelectSeq(hits, LAMBDA h : One - h.distance > thr)
      top == Slice(kept, limit)
  IN [k \in 1..Len(top) |-> Item(top[k].row, One - top[k].distance)]

\* The query is one the backend accepts.
QueryAccepted(q) ==
  CASE backend = "milvus" -> Len(q) = EMBEDDING_DIMENSION
    [] backend = "chroma" -> Len(q) # 0 /\ (chromaDim # 0 => Len(q) = chromaDim)
    [] backend = "pgvector" -> Len(q) = EMBEDDING_DIMENSION
    [] OTHER -> TRUE

SearchResults(q, limit, thr) ==
  CASE backend = "milvus" -> milvusSearchSimilarContent(rows, q, limit, thr)
    [] backend = "chroma" -> chromaSearchSimilarContent(rows, q, limit, thr)
    [] backend = "pgvector" -> pgSearchSimilarContent(rows, q, limit, thr)
    [] OTHER -> simpleSearchSimilarContent(rows, q, limit, thr)

\* searchSimilarContent(queryEmbedding, limit, similarityThreshold)
searchSimilarContent(p, q, limit, thr) ==
  /\ Free(p)
  /\ \/ /\ lastSearch' = [status |-> "error", query |-> q, limit |-> limit,
                          threshold |-> thr, results |-> <<>>]
        /\ call' = [call EXCEPT ![p] = [IdleCall EXCEPT !.op = "search", !.pc = "failed"]]
     \/ /\ QueryAccepted(q)
        /\ lastSearch' = [status |-> "ok", query |-> q, limit |-> limit,
                          threshold |-> thr, results |-> SearchResults(q, limit, thr)]
        /\ call' = [call EXCEPT ![p] = [IdleCall EXCEPT !.op = "search", !.pc = "returned"]]
  /\ UNCHANGED <<backend, now, rows, chromaDim, serial, gone, req, crawl, txt, sites, coll, page>>

\* ------------------------------------------------------------- homepage
\* HomePage of homepage/page.tsx: the url input, the button and startVoiceChat.
PageUrls == {"", " ", "example", "www.u1", "https://u1", "https://u2"}

\* !url.trim()
Blank(u) == u \in {"", " "}

\* new URL(url) does not throw
ParsesAsUrl(u) == u \in {"https://u1", "https://u2"}

\* onChange of the input, which is disabled while isLoading
setUrl(u) ==
  /\ page.pc = "idle" /\ ~page.isLoading
  /\ u # page.url
  /\ page' = [page EXCEPT !.url = u]
  /\ UNCHANGED <<backend, now, rows, chromaDim, serial, call, lastSearch, gone, req, crawl,
                 txt, sites, coll>>

\* startVoiceChat, from the button (disabled while isLoading or without a url)
\* or from Enter in the input (disabled while isLoading)
startVoiceChat_Begin ==
  /\ page.pc = "idle" /\ ~page.isLoading
  /\ page.alerts < MaxAlerts
  /\ page' = IF Blank(page.url)
             THEN [page EXCEPT !.alerts = @ + 1, !.outcome = "rejected"]
             ELSE [page EXCEPT !.pc = "validate", !.isLoading = TRUE,
                               !.crawlingStatus = "Validating URL...", !.outcome = "none"]
  /\ UNCHANGED <<backend, now, rows, chromaDim, serial, call, lastSearch, gone, req, crawl,
                 txt, sites, coll>>

\* new URL(url)
startVoiceChat_Validate ==
  /\ page.pc = "validate"
  /\ page' = IF ParsesAsUrl(page.url)
             THEN [page EXCEPT !.pc = "fetch",
                               !.crawlingStatus = "Crawling website content..."]
             ELSE [page EXCEPT !.pc = "catch"]
  /\ UNCHANGED <<backend, now, rows, chromaDim, serial, call, lastSearch, gone, req, crawl,
                 txt, sites, coll>>

\* await fetch(..): the crawler answers ok, answers not ok, or cannot be reached
startVoiceChat_Fetch ==
  /\ page.pc = "fetch"
  /\ \E answer \in {"ok", "notOk", "unreachable"} :
       page' = IF answer = "ok"
               THEN [page EXCEPT !.pc = "redirect",
                                 !.crawlingStatus = "Analysis complete! Redirecting..."]
               ELSE [page EXCEPT !.pc = "catch"]
  /\ UNCHANGED <<backend, now, rows, chromaDim, serial, call, lastSearch, gone, req, crawl,
                 txt, sites, coll>>

\* catch (error): alert, setIsLoading(true), setCrawlingStatus("")
startVoiceChat_Catch ==
  /\ page.pc = "catch"
  /\ page' = [page EXCEPT !.pc = "idle", !.alerts = @ + 1, !.isLoading = TRUE,
                          !.crawlingStatus = "", !.outcome = "failed"]
  /\ UNCHANGED <<backend, now, rows, chromaDim, serial, call, lastSearch, gone, req, crawl,
                 txt, sites, coll>>

\* setTimeout(() => { location.href = .. }, 1000)
startVoiceChat_Redirect ==
  /\ page.pc = "redirect"
  /\ page' = [page EXCEPT !.pc = "left", !.outcome = "redirected"]
  /\ UNCHANGED <<backend, now, rows, chromaDim, serial, call, lastSearch, gone, req, crawl,
                 txt, sites, coll>>

\* ----------------------------------------------------------- initialize
\* initializeDatabase of database-milvus.ts, database-chroma.ts and
\* database.ts.  coll.exists, coll.indexed and coll.loaded are what the
\* backend holds, coll.created counts the collections it has created.
InitBackends == {"milvus", "chroma", "pgvector"}

InitAt(p, pc) == coll.init[p].pc = pc

Goto(c, p, pc) == [c EXCEPT !.init[p].pc = pc]

\* initializeDatabase() is called
initializeDatabase_Begin(p) ==
  /\ backend \in InitBackends
  /\ InitAt(p, "idle")
  /\ coll.calls < MaxInit
  /\ coll' = [coll EXCEPT !.calls = @ + 1,
                          !.init[p] = [pc |-> IF backend = "pgvector" THEN "create"
                                              ELSE "check",
                                       before |-> <<coll.exists, coll.indexed, coll.loaded>>]]
  /\ UNCHANGED <<backend, now, rows, chromaDim, serial, call, lastSearch, gone, req, crawl,
                 txt, sites, page>>

\* showCollections / listCollections: collectionExists
initializeDatabase_Check(p) ==
  /\ InitAt(p, "check")
  /\ coll' = Goto(coll, p, IF ~coll.exists THEN "create"
                           ELSE IF backend = "milvus" THEN "loaded?" ELSE "returned")
  /\ UNCHANGED <<backend, now, rows, chromaDim, serial, call, lastSearch, gone, req, crawl,
                 txt, sites, page>>

\* createCollection / CREATE TABLE IF NOT EXISTS.  ChromaDB refuses a name that
\* is taken; Milvus accepts it with the same schema.
initializeDatabase_Create(p) ==
  /\ InitAt(p, "create")
  /\ coll' =
       IF coll.exists
       THEN Goto(coll, p, CASE backend = "chroma" -> "failed"
                            [] backend = "milvus" -> "index"
                            [] OTHER -> "index")
       ELSE [Goto(coll, p, IF backend = "chroma" THEN "returned" ELSE "index")
               EXCEPT !.exists = TRUE, !.created = @ + 1,
                      !.loaded = (backend # "milvus")]
  /\ UNCHANGED <<backend, now, rows, chromaDim, serial, call, lastSearch, gone, req, crawl,
                 txt, sites, page>>

\* createIndex / CREATE INDEX IF NOT EXISTS
initializeDatabase_Index(p) ==
  /\ InitAt(p, "index")
  /\ coll' = [Goto(coll, p, IF backend = "milvus" THEN "load" ELSE "returned")
                EXCEPT !.indexed = TRUE]
  /\ UNCHANGED <<backend, now, rows, chromaDim, serial, call, lastSearch, gone, req, crawl,
                 txt, sites, page>>

\* showCollections({collection_names}): isLoaded
initializeDatabase_IsLoaded(p) ==
  /\ InitAt(p, "loaded?")
  /\ coll' = Goto(coll, p, IF coll.loaded THEN "returned" ELSE "load")
  /\ UNCHANGED <<backend, now, rows, chromaDim, serial, call, lastSearch, gone, req, crawl,
                 txt, sites, page>>

\* loadCollectionSync.  Whether Milvus loads a collection that has no index
\* depends on the server: it may load it or refuse.
initializeDatabase_Load(p) ==
  /\ InitAt(p, "load")
  /\ \/ coll' = [Goto(coll, p, "returned") EXCEPT !.loaded = TRUE]
     \/ ~coll.indexed /\ coll' = Goto(coll, p, "failed")
  /\ UNCHANGED <<backend, now, rows, chromaDim, serial, call, lastSearch, gone, req, crawl,
                 txt, sites, page>>

\* the call in flight fails (connection lost): catch, throw error
initializeDatabase_Throw(p) ==
  /\ coll.init[p].pc \in {"check", "create", "index", "loaded?", "load"}
  /\ coll' = Goto(coll, p, "failed")
  /\ UNCHANGED <<backend, now, rows, chromaDim, serial, call, lastSearch, gone, req, crawl,
                 txt, sites, page>>

\* the caller has the outcome
initializeDatabase_Done(p) ==
  /\ coll.init[p].pc \in {"returned", "failed"}
  /\ coll' = [coll EXCEPT !.init[p] = IdleInit]
  /\ UNCHANGED <<backend, now, rows, chromaDim, serial, call, lastSearch, gone, req, crawl,
                 txt, sites, page>>

\* ---------------------------------------------------------- listSources
\* positions of the rows that bring a url the rows before them do not have
FirstOfUrl(rs) ==
  SelectSeq([k \in 1..Len(rs) |-> k],
            LAMBDA k : \A j \in 1..(k - 1) : rs[j].url # rs[k].url)

\* websites.set(url, ..) for every row: the entry stays where the url came
\* first and holds what the last row of the url carries.
LastOfUrl(rs, k) ==
  CHOOSE j \in k..Len(rs) :
    rs[j].url = rs[k].url /\ \A i \in (j + 1)..Len(rs) : rs[i].url # rs[k].url

\* database-milvus.ts getAllWebsites: the first row of a url makes its entry
milvusGetAllWebsites(rs) ==
  [n \in 1..Len(FirstOfUrl(rs)) |->
     [url |-> rs[FirstOfUrl(rs)[n]].url,
      crawled_at |-> rs[FirstOfUrl(rs)[n]].crawled_at]]

\* database-chroma.ts getAllWebsites: every row overwrites the entry of its url
chromaGetAllWebsites(rs) ==
  [n \in 1..Len(FirstOfUrl(rs)) |->
     [url |-> rs[FirstOfUrl(rs)[n]].url,
      crawledAt |-> rs[LastOfUrl(rs, FirstOfUrl(rs)[n])].crawledAt]]

\* getAllWebsites()
getAllWebsites(p) ==
  /\ Free(p)
  /\ backend \in {"milvus", "chroma"}
  /\ \/ /\ sites' = [status |-> "error", websites |-> <<>>]
        /\ call' = [call EXCEPT ![p] = [IdleCall EXCEPT !.op = "websites", !.pc = "failed"]]
     \/ /\ sites' = [status |-> "ok",
                      websites |-> IF backend = "milvus" THEN milvusGetAllWebsites(rows)
                                   ELSE chromaGetAllWebsites(rows)]
        /\ call' = [call EXCEPT ![p] = [IdleCall EXCEPT !.op = "websites", !.pc = "returned"]]
  /\ UNCHANGED <<backend, now, rows, chromaDim, serial, lastSearch, gone, req, crawl,
                 txt, coll, page>>

\* ---------------------------------------------------------- healthCheck
HealthCalls == {"use", "load", "query", "stats"}

\* checkCollectionData whose catch passes the error on.
milvusCheckCollectionDataRethrow(rs, f) ==
  IF f \cap {"use", "query"} # {}
  THEN [failed |-> f \cap {"use", "query"}, raised |-> TRUE, hasData |-> FALSE, count |-> 0]
  ELSE [failed |-> {}, raised |-> FALSE, hasData |-> Len(rs) > 0, count |-> Len(rs)]

\* database-milvus.ts checkCollectionData, where the calls in f fail when they
\* are made: client.use, showCollections / loadCollectionSync, client.query
\* and getCollectionStatistics.  failed: the calls that were made and failed.
milvusCheckCollectionData(rs, f) ==
  IF "use" \in f THEN [failed |-> {"use"}, raised |-> FALSE, hasData |-> FALSE, count |-> 0]
  ELSE IF "query" \in f
    THEN [failed |-> f \cap {"load", "query"}, raised |-> FALSE, hasData |-> FALSE, count |-> 0]
  ELSE IF Len(rs) > 0
    THEN [failed |-> f \cap {"load", "stats"}, raised |-> FALSE, hasData |-> TRUE,
          count |-> IF "stats" \in f THEN 1 ELSE Len(rs)]
  ELSE [failed |-> f \cap {"load"}, raised |-> FALSE, hasData |-> FALSE, count |-> 0]

\* database-chroma.ts checkCollectionData: client.getCollection, then
\* collection.get({limit: 1})
chromaCheckCollectionData(rs, f) ==
  IF f \cap {"use", "query"} # {}
  THEN [failed |-> IF "use" \in f THEN {"use"} ELSE {"query"},
        raised |-> FALSE, hasData |-> FALSE, count |-> 0]
  ELSE [failed |-> {}, raised |-> FALSE, hasData |-> Len(rs) > 0, count |-> Min(1, Len(rs))]

\* checkCollectionData() called on its own
checkCollectionData(f) ==
  /\ backend \in {"milvus", "chroma"}
  /\ req.pc = "idle"
  /\ req' = [IdleReq EXCEPT !.route = "healthCheck", !.pc = "done",
                            !.trace = <<"INDEX-EMPTY-CHECK">>,
                            !.health = IF backend = "milvus"
                                       THEN milvusCheckCollectionData(rows, f)
                                       ELSE chromaCheckCollectionData(rows, f)]
  /\ UNCHANGED <<backend, now, rows, chromaDim, serial, call, lastSearch, gone, crawl, txt, sites, coll, page>>

\* ----------------------------------------------------- retrieval requests
tLetter ==
  <<"a">>
tGreeting ==
  <<"w", "h", "a", "t", "'", "s", " ", "u", "p">>
tName ==
  <<"T", "e", "l", "l", " ", "m", "e", " ", "a", "b", "o", "u">>
    \o <<"t", " ", "J", "o", "h", "n", " ", "S", "m", "i", "t", "h">>
tLong ==
  <<"w", "h", "e", "r", "e", " ", "c", "a", "n", " ", "i", " ">>
    \o <<"f", "i", "n", "d", " ", "t", "h", "e", " ", "p", "r", "i", "c", "i", "n", "g", " ", "p", "a", "g", "e">>
tSpelled ==
  <<"a", " ", "x", " ", "c", " ", "e", " ", "n", " ", "d">>

QueryTexts == {tLetter, tGreeting, tName, tLong, tSpelled}

\* maxSearchResults (15 : 10) and topCount (7 : 5) of the knowledge-base
\* route, scaled down with the size of the collection
NameSearchResults == 3
DefaultSearchResults == 2
NameTopCount == 2
DefaultTopCount == 1
\* similarityThreshold 0.2 of the knowledge-base route
KbThreshold == 20

\* NextResponse.json(..): the request is answered
Respond(r, stages, status, body, documents) ==
  [r EXCEPT !.pc = "done", !.trace = r.trace \o stages \o <<"RESPOND">>,
            !.response = [status |-> status, body |-> body, documents |-> documents]]

\* verifyWebhookSignature: the header equals "sha256=" + HMAC(body, secret)
Truthy(signature) == signature \notin {"none", ""}

\* verifyWebhookSignature that skips the comparison.
verifyWebhookSignatureSkipped(signature, secret) == TRUE

\* verifyWebhookSignature: the header equals "sha256=" + HMAC(body, secret);
\* signature is "none" without the header and "" for an empty one
verifyWebhookSignature(signature, secret) ==
  IF ~Truthy(signature) \/ ~secret THEN TRUE ELSE signature = "valid"

\* A check that lets every query through.
TooShortNever(query) == FALSE

\* query.trim().length < 2
TooShort(query) == Len(trim(query)) < 2

\* query.trim(), cleanQuery(query) and hasName of each text a request can
\* carry, worked out once per text
Cleaned ==
  [t \in QueryTexts \cup {<<>>} |->
     CHOOSE c \in { [raw |-> raw, query |-> query, hasName |-> hasName(query)] :
                      raw \in {trim(t)}, query \in {cleanQuery(trim(t))} } : TRUE]

KbBodies ==
  { [kind |-> k, text |-> <<>>] : k \in {"unparsable", "wrongType", "noQuery"} }
    \cup { [kind |-> "query", text |-> t] : t \in QueryTexts }

\* POST /api/kb/search up to its first await on the index: parse, signature,
\* request type, latest user message, cleanQuery, hasName, too-short check
kbPOST_Begin(body, secret, signature) ==
  LET raw == Cleaned[body.text].raw
      query == Cleaned[body.text].query
      r == [IdleReq EXCEPT !.route = "kb",
                           !.input = [kind |-> body.kind, secret |-> secret,
                                      signature |-> signature]]
  IN /\ backend = "milvus"
     /\ req.pc = "idle"
     /\ req' =
          IF body.kind = "unparsable" THEN Respond(r, <<>>, 200, "documents", <<>>)
          ELSE IF secret /\ Truthy(signature) /\ ~verifyWebhookSignature(signature, secret)
            THEN Respond(r, <<>>, 401, "error", <<>>)
          ELSE IF body.kind # "query" \/ raw = <<>>
            THEN Respond(r, <<>>, 200, "documents", <<>>)
          ELSE IF TooShort(query)
            THEN Respond([r EXCEPT !.query = query, !.hasName = Cleaned[body.text].hasName],
                         <<"NORMALIZE", "TOO-SHORT-CHECK">>, 200, "documents", <<>>)
          ELSE [r EXCEPT !.pc = "health", !.query = query, !.hasName = Cleaned[body.text].hasName,
                         !.trace = <<"NORMALIZE", "TOO-SHORT-CHECK">>]
     /\ UNCHANGED <<backend, now, rows, chromaDim, serial, call, lastSearch, gone, crawl, txt, sites, coll, page>>

\* await checkCollectionData()
kbPOST_Health(f) ==
  LET h == milvusCheckCollectionData(rows, f)
      r == [req EXCEPT !.health = h]
  IN /\ req.route = "kb" /\ req.pc = "health"
     /\ req' = IF h.raised \/ ~h.hasData
               THEN Respond(r, <<"INDEX-EMPTY-CHECK">>, 200, "documents", <<>>)
               ELSE [r EXCEPT !.pc = "embed", !.trace = Append(req.trace, "INDEX-EMPTY-CHECK")]
     /\ UNCHANGED <<backend, now, rows, chromaDim, serial, call, lastSearch, gone, crawl, txt, sites, coll, page>>

\* createQueryEmbedding(searchQuery) without the await: the search is started
\* while the embedding call is still out.
kbPOST_EmbedNotAwaited ==
  /\ req.route = "kb" /\ req.pc = "embed"
  /\ \E e \in Queries : req' = [req EXCEPT !.pc = "search", !.embedding = e]
  /\ UNCHANGED <<backend, now, rows, chromaDim, serial, call, lastSearch, gone, crawl, txt, sites, coll, page>>

\* await createQueryEmbedding(searchQuery)
kbPOST_Embed ==
  /\ req.route = "kb" /\ req.pc = "embed"
  /\ \/ req' = Respond(req, <<"EMBED">>, 200, "documents", <<>>)
     \/ \E e \in Queries :
          req' = [req EXCEPT !.pc = "search", !.embedding = e,
                             !.trace = Append(req.trace, "EMBED")]
  /\ UNCHANGED <<backend, now, rows, chromaDim, serial, call, lastSearch, gone, crawl, txt, sites, coll, page>>

\* the documents of the response: content with its source, similarity, uuid
Documents(items) ==
  [k \in 1..Len(items) |->
     [content |-> items[k].content, source |-> items[k].url,
      similarity |-> items[k].similarity, uuid |-> items[k].id]]

\* const maxSearchResults = hasName ? 15 : 10
maxSearchResultsOf(name) == IF name THEN NameSearchResults ELSE DefaultSearchResults

\* A slice as long as the candidate pool.
topCountUntrimmed(name) == maxSearchResultsOf(name)

\* const topCount = hasName ? 7 : 5
topCountOf(name) == IF name THEN NameTopCount ELSE DefaultTopCount

\* await searchSimilarContent(..), sort, slice(0, topCount), map, respond
kbPOST_Search ==
  LET maxSearchResults == maxSearchResultsOf(req.hasName)
      relevantContent ==
        milvusSearchSimilarContent(rows, req.embedding, maxSearchResults, KbThreshold)
      topCount == topCountOf(req.hasName)
      topDocuments == Slice(SortDesc(relevantContent), topCount)
      r == [req EXCEPT !.topK = maxSearchResults, !.threshold = KbThreshold]
  IN /\ req.route = "kb" /\ req.pc = "search"
     /\ \/ req' = Respond(r, <<"SEARCH">>, 200, "documents", <<>>)
        \/ /\ QueryAccepted(req.embedding)
           /\ req' = Respond([r EXCEPT !.candidates = relevantContent],
                             <<"SEARCH", "RANK/TRIM", "ENRICH">>, 200, "documents",
                             Documents(topDocuments))
     /\ UNCHANGED <<backend, now, rows, chromaDim, serial, call, lastSearch, gone, crawl, txt, sites, coll, page>>

\* POST /api/chat: body, `if (!message)`
chatPOST_Begin(message, maxResults, similarityThreshold) ==
  LET r == [IdleReq EXCEPT !.route = "chat", !.query = message, !.topK = maxResults,
                           !.threshold = similarityThreshold]
  IN /\ backend = "chroma"
     /\ req.pc = "idle"
     /\ req' = IF message = <<>> THEN Respond(r, <<>>, 400, "error", <<>>)
               ELSE [r EXCEPT !.pc = "embed"]
     /\ UNCHANGED <<backend, now, rows, chromaDim, serial, call, lastSearch, gone, crawl, txt, sites, coll, page>>

\* await createQueryEmbedding(message)
chatPOST_Embed ==
  /\ req.route = "chat" /\ req.pc = "embed"
  /\ \/ req' = Respond(req, <<"EMBED">>, 500, "error", <<>>)
     \/ \E e \in Queries :
          req' = [req EXCEPT !.pc = "search", !.embedding = e,
                             !.trace = Append(req.trace, "EMBED")]
  /\ UNCHANGED <<backend, now, rows, chromaDim, serial, call, lastSearch, gone, crawl, txt, sites, coll, page>>

\* A chat route that keeps the question it searched for as a row of the index.
chatPOST_SearchRemembered ==
  /\ req.route = "chat" /\ req.pc = "search"
  /\ Len(rows) < MaxRows
  /\ req' = [req EXCEPT !.pc = "answer", !.trace = Append(req.trace, "SEARCH")]
  /\ rows' = Append(rows, [content |-> "q", embedding |-> req.embedding, url |-> "chat",
                           id |-> <<"chat", 0, now>>, chunkIndex |-> 0, totalChunks |-> 1,
                           crawledAt |-> now])
  /\ UNCHANGED <<backend, now, chromaDim, serial, call, lastSearch, gone, crawl, txt, sites, coll, page>>

\* await searchSimilarContent(messageEmbedding, maxResults, similarityThreshold)
chatPOST_Search ==
  LET relevantContent ==
        chromaSearchSimilarContent(rows, req.embedding, req.topK, req.threshold)
  IN /\ req.route = "chat" /\ req.pc = "search"
     /\ \/ req' = Respond(req, <<"SEARCH">>, 500, "error", <<>>)
        \/ /\ QueryAccepted(req.embedding)
           /\ req' = IF Len(relevantContent) = 0
                     THEN Respond(req, <<"SEARCH">>, 200, "noInformation", <<>>)
                     ELSE [req EXCEPT !.pc = "answer", !.candidates = relevantContent,
                                      !.trace = Append(req.trace, "SEARCH")]
     /\ UNCHANGED <<backend, now, rows, chromaDim, serial, call, lastSearch, gone, crawl, txt, sites, coll, page>>

\* await generateVoiceResponse / answerQuestion, then the response with sources
chatPOST_Answer ==
  /\ req.route = "chat" /\ req.pc = "answer"
  /\ \/ req' = Respond(req, <<"ANSWER">>, 500, "error", <<>>)
     \/ req' = Respond(req, <<"ANSWER">>, 200, "answer", Documents(req.candidates))
  /\ UNCHANGED <<backend, now, rows, chromaDim, serial, call, lastSearch, gone, crawl, txt, sites, coll, page>>

\* the response has been sent
requestDone ==
  /\ req.pc = "done"
  /\ req' = IdleReq
  /\ UNCHANGED <<backend, now, rows, chromaDim, serial, call, lastSearch, gone, crawl, txt, sites, coll, page>>

\* ------------------------------------------------------- crawl requests
\* basicChunks of the fallback: the head of the content with a zero embedding
basicChunk == [content |-> "f", embedding |-> [k \in 1..EMBEDDING_DIMENSION |-> 0]]

Answer(c, status, stored) ==
  [c EXCEPT !.pc = "done", !.response = [status |-> status, stored |-> stored]]

\* What is stored for the url of the crawl request.
CrawlRows == SelectSeq(rows, LAMBDA r : r.url = crawl.url)

\* POST /api/crawl: `if (!url)`, await initializeDatabase()
crawlPOST_Begin(u) ==
  LET c == [IdleCrawl EXCEPT !.url = u]
  IN /\ backend = "chroma"
     /\ crawl.pc = "idle"
     /\ Free(Caller)
     /\ \/ u = "" /\ crawl' = Answer(c, 400, FALSE)
        \/ /\ u # ""
           /\ \/ crawl' = Answer([c EXCEPT !.failed = TRUE,
                                           !.atFailure = RowsOf(rows, u)], 500, FALSE)
              \/ crawl' = [c EXCEPT !.pc = "fetch"]
     /\ UNCHANGED <<backend, now, rows, chromaDim, serial, call, lastSearch, gone, req, txt, sites, coll, page>>

\* await fetch('http://localhost:8000/crawl'), response.json()
crawlPOST_Fetch ==
  /\ crawl.pc = "fetch"
  /\ \/ crawl' = Answer(crawl, 500, FALSE)
     \/ crawl' = Answer(crawl, 200, FALSE)
     \/ crawl' = [crawl EXCEPT !.pc = "process"]
  /\ UNCHANGED <<backend, now, rows, chromaDim, serial, call, lastSearch, gone, req, txt, sites, coll, page>>

\* extractKeyInfo, summarizeContent, processContentForEmbeddings
crawlPOST_Process ==
  /\ crawl.pc = "process"
  /\ \/ crawl' = [crawl EXCEPT !.pc = "fallback"]
     \/ \E cs \in ChunkLists : crawl' = [crawl EXCEPT !.pc = "store", !.chunks = cs]
  /\ UNCHANGED <<backend, now, rows, chromaDim, serial, call, lastSearch, gone, req, txt, sites, coll, page>>

\* await storeWebsiteData(url, .., contentChunks): the call starts
crawlPOST_Store ==
  /\ crawl.pc = "store"
  /\ chromaStoreWebsiteData_Begin(Caller, crawl.url, crawl.chunks)

\* .. and ends: the response with stored: true, or the catch (processingError)
crawlPOST_Stored ==
  /\ crawl.pc = "store"
  /\ call[Caller].op = "upsert" /\ call[Caller].pc \in {"returned", "failed"}
  /\ crawl' = IF call[Caller].pc = "returned" THEN Answer(crawl, 200, TRUE)
              ELSE [crawl EXCEPT !.pc = "fallback", !.failed = TRUE,
                                 !.atFailure = CrawlRows]
  /\ call' = [call EXCEPT ![Caller] = IdleCall]
  /\ UNCHANGED <<backend, now, rows, chromaDim, serial, lastSearch, gone, req, txt, sites, coll, page>>

\* fallback: await storeWebsiteData(url, .., basicChunks): the call starts
crawlPOST_Fallback ==
  /\ crawl.pc = "fallback"
  /\ chromaStoreWebsiteData_Begin(Caller, crawl.url, <<basicChunk>>)

\* .. and ends: stored: true, fallback: true, or `throw storageError`
crawlPOST_FallbackStored ==
  /\ crawl.pc = "fallback"
  /\ call[Caller].op = "upsert" /\ call[Caller].pc \in {"returned", "failed"}
  /\ crawl' = IF call[Caller].pc = "returned" THEN Answer(crawl, 200, TRUE)
              ELSE Answer(crawl, 500, FALSE)
  /\ call' = [call EXCEPT ![Caller] = IdleCall]
  /\ UNCHANGED <<backend, now, rows, chromaDim, serial, lastSearch, gone, req, txt, sites, coll, page>>

\* the response has been sent
crawlDone ==
  /\ crawl.pc = "done"
  /\ crawl' = IdleCrawl
  /\ UNCHANGED <<backend, now, rows, chromaDim, serial, call, lastSearch, gone, req, txt, sites, coll, page>>

\* ------------------------------------------------------ query functions
\* The transcriptions cleanQuery is applied to: every text of up to MaxTokens
\* tokens, separated by a space or by a comma and a space, and the texts of
\* the requests.
Tokens == { <<"a">>, <<"x">>, <<"d", "o", "g">> }
Separators == { <<" ">>, <<",", " ">> }

tLetters == <<"A", " ", "b", " ", " ", "c">>
tCommas ==
  <<"a", ",", " ", "x", ",", " ", "c", ",", " ", "e", ",", " ", "n", ",", " ", "d">>
tWordLetters == <<"t", "e", "l", "l", " ", "x", " ", "y", " ", "z", "e", "b", "r", "a">>

RECURSIVE TextsOf(_)
TextsOf(n) ==
  IF n = 1 THEN Tokens
  ELSE { t \o sep \o tok : t \in TextsOf(n - 1), sep \in Separators, tok \in Tokens }

Texts ==
  UNION { TextsOf(n) : n \in 1..MaxTokens }
    \cup QueryTexts \cup {tLetters, tCommas, tWordLetters}

\* the queries searchQuery is chosen for
tLongName ==
  <<"p", "l", "e", "a", "s", "e", " ", "t", "e", "l", "l", " ", "m", "e",
    " ", "m", "o", "r", "e", " ", "a", "b", "o", "u", "t", " ", "J", "o",
    "h", "n", " ", "S", "m", "i", "t", "h", " ", "t", "o", "d", "a", "y">>
tManyTerms ==
  <<"B", "o", "b", " ", "p", "l", "a", "n", " ", "c", "o", "s", "t", " ",
    "d", "e", "m", "o", " ", "t", "e", "a", "m", " ", "d", "o", "c", "s",
    " ", "a", "p", "p", "s", " ", "d", "a", "t", "a", " ", "l", "o", "g",
    "s", " ", "k", "e", "y", "s", " ", "s", "y", "n", "c">>
tStopWords ==
  <<"w", "h", "a", "t", " ", "i", "s", " ", "i", "t", " ", "t", "h", "a",
    "t", " ", "y", "o", "u", " ", "w", "o", "u", "l", "d", " ", "d", "o",
    " ", "a", "n", "d", " ", "w", "h", "y">>

Questions == QueryTexts \cup {tLongName, tStopWords, tLetters, tWordLetters}

\* cleanQuery(query)
applyCleanQuery(t) ==
  /\ txt.op = "none"
  /\ txt' = [NoText EXCEPT !.op = "cleanQuery", !.text = t, !.result = cleanQuery(t)]
  /\ UNCHANGED <<backend, now, rows, chromaDim, serial, call, lastSearch, gone, req, crawl,
                 sites, coll, page>>

\* extractKeyTerms(text)
applyExtractKeyTerms(t) ==
  /\ txt.op = "none"
  /\ \E terms \in {KeyTerms(t)} :
       txt' = [NoText EXCEPT !.op = "extractKeyTerms", !.text = t, !.terms = terms,
                             !.result = Join(terms)]
  /\ UNCHANGED <<backend, now, rows, chromaDim, serial, call, lastSearch, gone, req, crawl,
                 sites, coll, page>>

\* query = cleanQuery(query), hasName, isShortQuery and the choice of searchQuery
applySearchQuery(t) ==
  /\ txt.op = "none"
  /\ \E query \in {cleanQuery(t)} :
       txt' = [NoText EXCEPT !.op = "searchQuery", !.text = query,
                             !.hasName = hasName(query),
                             !.isShortQuery = isShortQuery(query),
                             !.result = searchQueryOf(query)]
  /\ UNCHANGED <<backend, now, rows, chromaDim, serial, call, lastSearch, gone, req, crawl,
                 sites, coll, page>>

\* the function has returned
textDone ==
  /\ txt.op # "none"
  /\ txt' = NoText
  /\ UNCHANGED <<backend, now, rows, chromaDim, serial, call, lastSearch, gone, req, crawl,
                 sites, coll, page>>

\* ---------------------------------------------------------------- claims
Chunk(r) == [content |-> r.content, embedding |-> r.embedding]
StoredChunks(u) == LET rs == RowsOf(rows, u) IN [k \in 1..Len(rs) |-> Chunk(rs[k])]
OldChunks(p) == [k \in 1..Len(call[p].old) |-> Chunk(call[p].old[k])]

UpsertReturned(p) == call[p].op = "upsert" /\ call[p].pc = "returned"
UpsertFailed(p) == call[p].op = "upsert" /\ call[p].pc = "failed"
DeleteReturned(p) == call[p].op = "delete" /\ call[p].pc = "returned"
SearchOk == lastSearch.status = "ok"

\* C1: when an upsert has returned successfully, the chunks stored for its
\* url are exactly the chunks it was given (nothing of the earlier set is
\* left).
C1_UpsertReplaces ==
  \A p \in Procs : UpsertReturned(p) => StoredChunks(call[p].url) = call[p].chunks

\* C2: an upsert of the chunks that are already stored for the url leaves
\* exactly len(chunks) entries for that url.
C2_UpsertIdempotent ==
  \A p \in Procs :
    (UpsertReturned(p) /\ OldChunks(p) = call[p].chunks)
      => Len(RowsOf(rows, call[p].url)) = Len(call[p].chunks)

\* C3: a search on a non-empty index never returns the empty list, and when
\* none of what it returns clears the threshold it returns the top
\* min(3, available) results.
C3_ThresholdRelaxation ==
  (SearchOk /\ rows # <<>>)
    => /\ lastSearch.results # <<>>
       /\ (\A k \in 1..Len(lastSearch.results) :
              lastSearch.results[k].similarity < lastSearch.threshold)
            => Len(lastSearch.results)
                 = Min(RelaxCount, Min(lastSearch.limit, Len(rows)))

\* The index holds one source of three chunks with distinct embeddings.
ThreeChunkSource ==
  /\ Len(rows) = 3
  /\ \A j, k \in 1..3 : rows[j].url = rows[k].url
  /\ \A j, k \in 1..3 : j # k => rows[j].embedding # rows[k].embedding

\* C4: with one source of three chunks stored, a search by the embedding of
\* chunk 2 returns chunk 2 first, with a similarity strictly above that of
\* every other result.
C4_SelfMatchFirst ==
  (SearchOk /\ ThreeChunkSource /\ lastSearch.query = rows[2].embedding)
    => /\ lastSearch.results # <<>>
       /\ lastSearch.results[1].content = rows[2].content
       /\ \A k \in 2..Len(lastSearch.results) :
            lastSearch.results[1].similarity > lastSearch.results[k].similarity

\* C5: every list a search returns is in descending order of similarity.
C5_SortedDescending ==
  SearchOk => \A k \in 1..(Len(lastSearch.results) - 1) :
                 lastSearch.results[k].similarity >= lastSearch.results[k + 1].similarity

\* C6: when deleteSource(url) has returned, the rows are the rows from before
\* the call without those of url (the same rows when url was absent), and no
\* search returns a result of a url that was deleted and not ingested since.
C6_DeleteSource ==
  /\ \A p \in Procs :
       DeleteReturned(p)
         => rows = SelectSeq(call[p].old, LAMBDA r : r.url # call[p].url)
  /\ SearchOk => \A k \in 1..Len(lastSearch.results) : lastSearch.results[k].url \notin gone

\* deleteSource has returned after removing a source while another one stays
C6_Witness ==
  \E p \in Procs :
    /\ DeleteReturned(p)
    /\ RowsOf(call[p].old, call[p].url) # <<>>
    /\ rows # <<>>

\* C7: when an upsert has failed, the chunks stored for its url are the ones
\* stored before the call.
C7_FailedUpsertKeepsOld ==
  \A p \in Procs : UpsertFailed(p) => RowsOf(rows, call[p].url) = call[p].old

\* C8: two upserts of the same url never are in their write phase together,
\* and once two concurrent upserts of a url have both returned the chunks
\* stored for it are those of one of the two.
C8_PerUrlMutualExclusion ==
  \A p, q \in Procs :
    (p # q /\ call[p].url = call[q].url)
      => /\ ~(Writing(p, call[p].url) /\ Writing(q, call[q].url))
         /\ (UpsertReturned(p) /\ UpsertReturned(q) /\ call[p].conc /\ call[q].conc)
              => StoredChunks(call[p].url) \in {call[p].chunks, call[q].chunks}

\* C9: no two stored chunks share an id.
C9_UniqueIds ==
  \A j, k \in 1..Len(rows) : j # k => rows[j].id # rows[k].id

\* C10: every stored embedding has EMBEDDING_DIMENSION components.
C10_DimensionEnforced ==
  \A k \in 1..Len(rows) : Len(rows[k].embedding) = EMBEDDING_DIMENSION

\* C11: for each url the ordinals (chunkIndex) of its stored chunks are
\* pairwise distinct and are exactly 0..n-1, n the number of chunks stored for
\* that url (the ordinal is a field of the Chroma records only).
C11_OrdinalsContiguous ==
  backend = "chroma" =>
    \A u \in Urls :
      LET rs == RowsOf(rows, u)
      IN /\ \A j, k \in 1..Len(rs) : j # k => rs[j].chunkIndex # rs[k].chunkIndex
         /\ { rs[k].chunkIndex : k \in 1..Len(rs) } = 0..(Len(rs) - 1)

\* C13: a search call never ends by raising: when the backend is unreachable
\* or fails, the call returns, and what it returns is the empty list.
C13_SearchDegrades ==
  \A p \in Procs :
    call[p].op = "search"
      => /\ call[p].pc = "returned"
         /\ lastSearch.status = "error" => lastSearch.results = <<>>

Stages(r) == Range(r.trace)
Finished(r) == r.pc = "done"
Conversational(r) == r.route \in {"kb", "chat"}
HealthChecked == req.route \in {"kb", "healthCheck"} /\ "INDEX-EMPTY-CHECK" \in Stages(req)

\* C12: healthCheck never raises, and whenever a call it has made failed it
\* answers hasData = false with count = 0.
C12_HealthAllFailuresToNoData ==
  (HealthChecked /\ req.health.failed # {})
    => /\ ~req.health.raised
       /\ ~req.health.hasData
       /\ req.health.count = 0

\* C12 as amended: healthCheck never raises; when the connection or the probe
\* query for a sample row fails it answers hasData = false with count = 0; a
\* failed load check or statistics call is absorbed and the answer is taken
\* from the probe, with count = 1 when the statistics failed.
C12_HealthAbsorbsFailures ==
  HealthChecked
    => /\ ~req.health.raised
       /\ req.health.failed \cap {"use", "query"} # {}
            => (~req.health.hasData /\ req.health.count = 0)
       /\ "stats" \in req.health.failed => (req.health.hasData /\ req.health.count = 1)
       /\ req.health.hasData => (rows # <<>> /\ req.health.count \in 1..Len(rows))

\* healthCheck has answered after its connection or its probe query failed
C12_Witness ==
  /\ HealthChecked
  /\ req.health.failed \cap {"use", "query"} # {}
  /\ rows # <<>>

\* C14: a conversational request never ends with an error status of the
\* server: whatever fails inside, the response is a successful one, and it
\* carries no results when the embedding or the index failed.
C14_AlwaysWellFormed ==
  (Conversational(req) /\ Finished(req))
    => /\ req.response.status # 500
       /\ req.response.body # "error" \/ req.response.status \in {400, 401}

\* C15: once initialize or the upsert of the processed chunks has failed in a
\* crawl request, nothing more is written for its url, and the request ends
\* with an error response that does not report the source as stored.
C15_IngestionFailureSurfaced ==
  crawl.failed
    => /\ CrawlRows = crawl.atFailure
       /\ crawl.pc = "done" => (crawl.response.status = 500 /\ ~crawl.response.stored)

\* position of the first occurrence of a stage in a trace (0: none)
FirstAt(t, stage) ==
  IF \E k \in 1..Len(t) : t[k] = stage
  THEN CHOOSE k \in 1..Len(t) : t[k] = stage /\ \A j \in 1..(k - 1) : t[j] # stage
  ELSE 0

\* C16: the embedding provider is only called after healthCheck has reported
\* data, and a request whose healthCheck reported no data ends with an empty
\* response without embedding or search.
C16_EmptyIndexShortCircuit ==
  Conversational(req)
    => /\ "EMBED" \in Stages(req)
            => /\ FirstAt(req.trace, "INDEX-EMPTY-CHECK") \in 1..(FirstAt(req.trace, "EMBED") - 1)
               /\ req.health.hasData
       /\ ("INDEX-EMPTY-CHECK" \in Stages(req) /\ ~req.health.hasData)
            => /\ Stages(req) \cap {"EMBED", "SEARCH"} = {}
               /\ Finished(req)
               /\ req.response = [status |-> 200, body |-> "documents", documents |-> <<>>]

\* C17: a knowledge-base query shorter than two characters after cleaning is
\* answered with the empty result, and neither the embedding provider nor
\* search is called for it.
C17_TooShortRejected ==
  (req.route = "kb" /\ "NORMALIZE" \in Stages(req) /\ Len(req.query) < 2)
    => /\ Stages(req) \cap {"EMBED", "SEARCH"} = {}
       /\ Finished(req)
       /\ req.response = [status |-> 200, body |-> "documents", documents |-> <<>>]

\* a one-letter query has been rejected
C17_Witness ==
  /\ req.route = "kb" /\ Finished(req)
  /\ req.query = tLetter
  /\ rows # <<>>

\* the stage order of the specification, and the one of the route
SpecOrder == <<"INDEX-EMPTY-CHECK", "NORMALIZE", "TOO-SHORT-CHECK", "EMBED", "SEARCH",
               "RANK/TRIM", "ENRICH", "RESPOND">>
RouteOrder == <<"NORMALIZE", "TOO-SHORT-CHECK", "INDEX-EMPTY-CHECK", "EMBED", "SEARCH",
                "RANK/TRIM", "ENRICH", "RESPOND">>

\* The stages of t occur once each, in the order of o.
InOrder(t, o) ==
  /\ \A k \in 1..Len(t) : FirstAt(o, t[k]) # 0
  /\ \A j, k \in 1..Len(t) : j < k => FirstAt(o, t[j]) < FirstAt(o, t[k])

\* The stages of t are a beginning of o, closed or not by the response.
RunsInOrder(t, o) ==
  \E n \in 0..Len(o) :
    t \in {SubSeq(o, 1, n), SubSeq(o, 1, n) \o <<"RESPOND">>}

\* C18: the stages of a knowledge-base request run one after the other in the
\* order index-empty check, normalize, too-short check, embed, search,
\* rank/trim, enrich, respond; search never starts before embed has returned.
C18_StagesInSpecOrder ==
  req.route = "kb"
    => /\ InOrder(req.trace, SpecOrder)
       /\ "SEARCH" \in Stages(req) => "EMBED" \in Stages(req)

\* C18 as amended: the stages run one after the other in the order normalize,
\* too-short check, index-empty check, embed, search, rank/trim, enrich,
\* respond (a request that ends early responds at once); search never starts
\* before embed has returned.
C18_StagesInRouteOrder ==
  (req.route = "kb" /\ "NORMALIZE" \in Stages(req))
    => /\ RunsInOrder(req.trace, RouteOrder)
       /\ "SEARCH" \in Stages(req)
            => FirstAt(req.trace, "EMBED") \in 1..(FirstAt(req.trace, "SEARCH") - 1)

\* a knowledge-base request has gone through every stage
C18_Witness ==
  /\ req.route = "kb" /\ Finished(req)
  /\ req.trace = RouteOrder
  /\ req.response.documents # <<>>

\* the greeting of the specification
IsGreeting(q) == q = tGreeting

\* C19: a greeting is answered with a canned response without healthCheck,
\* embedding call or search.
C19_GreetingBypassesRetrieval ==
  (Conversational(req) /\ IsGreeting(req.query))
    => /\ Stages(req) \cap {"INDEX-EMPTY-CHECK", "EMBED", "SEARCH"} = {}
       /\ Finished(req) => req.response.body = "canned"

\* C20: search is asked for NameSearchResults candidates for a name-bearing
\* query and for the smaller DefaultSearchResults otherwise; the response holds
\* at most NameTopCount, respectively DefaultTopCount, documents, which are
\* the candidates of highest similarity in descending order.
C20_AdaptiveTopK ==
  (req.route = "kb" /\ "RANK/TRIM" \in Stages(req))
    => LET docs == req.response.documents
           cands == req.candidates
           cap == IF req.hasName THEN NameTopCount ELSE DefaultTopCount
       IN /\ NameSearchResults > DefaultSearchResults
          /\ req.topK = (IF req.hasName THEN NameSearchResults ELSE DefaultSearchResults)
          /\ Len(cands) <= req.topK
          /\ Len(docs) = Min(cap, Len(cands))
          /\ \A k \in 1..(Len(docs) - 1) : docs[k].similarity >= docs[k + 1].similarity
          /\ \A k \in 1..Len(docs) :
               \E j \in 1..Len(cands) :
                 cands[j].similarity = docs[k].similarity /\ cands[j].content = docs[k].content
          /\ Len(docs) > 0
               => Cardinality({ j \in 1..Len(cands) :
                                  cands[j].similarity > docs[Len(docs)].similarity })
                    < Len(docs)

\* a name-bearing query got more candidates than may be returned
C20_Witness ==
  /\ req.route = "kb" /\ "RANK/TRIM" \in Stages(req)
  /\ req.hasName
  /\ Len(req.candidates) = NameSearchResults
  /\ Len(req.response.documents) = NameTopCount

\* the tokens of a transcription: what spaces and commas separate
IsSeparator(c) == IsSpace(c) \/ c = ","

RECURSIVE TokenEnd(_, _)
TokenEnd(s, i) == IF i < Len(s) /\ ~IsSeparator(s[i + 1]) THEN TokenEnd(s, i + 1) ELSE i

RECURSIVE SplitTokens(_, _)
SplitTokens(s, i) ==
  IF i > Len(s) THEN <<>>
  ELSE IF IsSeparator(s[i]) THEN SplitTokens(s, i + 1)
  ELSE <<SubSeq(s, i, TokenEnd(s, i))>> \o SplitTokens(s, TokenEnd(s, i) + 1)

SingleLetter(tok) == Len(tok) = 1 /\ IsLetter(tok[1])

\* last token of the run of single-letter tokens that starts at token i
RECURSIVE RunEnd(_, _)
RunEnd(ts, i) == IF i < Len(ts) /\ SingleLetter(ts[i + 1]) THEN RunEnd(ts, i + 1) ELSE i

HasLongRun(ts) ==
  \E i \in 1..Len(ts) : SingleLetter(ts[i]) /\ RunEnd(ts, i) - i + 1 >= 3

\* every run of three or more single-letter tokens joined into one lowercase token
RECURSIVE CollapseRuns(_, _)
CollapseRuns(ts, i) ==
  IF i > Len(ts) THEN <<>>
  ELSE IF SingleLetter(ts[i]) /\ RunEnd(ts, i) - i + 1 >= 3
    THEN <<[k \in 1..(RunEnd(ts, i) - i + 1) |-> toLowerCase(ts[i + k - 1][1])]>>
           \o CollapseRuns(ts, RunEnd(ts, i) + 1)
  ELSE <<ts[i]>> \o CollapseRuns(ts, i + 1)

Cleaning == txt.op = "cleanQuery"

\* C21: cleanQuery joins every run of three or more single-letter tokens,
\* separated by spaces or commas and wherever it stands in the text, into one
\* lowercase token ("a x c e n d" becomes "axcend").
C21_RunsCollapsed ==
  (Cleaning /\ HasLongRun(SplitTokens(txt.text, 1)))
    => SplitTokens(txt.result, 1) = CollapseRuns(SplitTokens(txt.text, 1), 1)

\* C22: a text without a run of three or more single-letter tokens comes out
\* of cleanQuery as it went in, repeated white space collapsed.
C22_ShortRunsUntouched ==
  (Cleaning /\ ~HasLongRun(SplitTokens(txt.text, 1)))
    => txt.result = CollapseSpaces(trim(txt.text))

\* the tokens of a query, and whether two neighbours are capitalized words
IsCapitalized(tok) ==
  /\ Len(tok) >= 2
  /\ IsUpper(tok[1])
  /\ \A k \in 2..Len(tok) : IsLower(tok[k])

TwoCapitalized(ts) ==
  \E k \in 1..(Len(ts) - 1) : IsCapitalized(ts[k]) /\ IsCapitalized(ts[k + 1])

Choosing == txt.op = "searchQuery"

\* C23: the text that is embedded is the cleaned query itself whenever the
\* query holds two consecutive capitalized tokens or has five tokens or fewer;
\* key terms are extracted only when neither flag holds, and for
\* "Tell me about John Smith" hasName holds and nothing is extracted.
C23_NameOrShortVerbatim ==
  Choosing =>
    /\ TwoCapitalized(SplitSpaces(txt.text, 1)) => txt.hasName
    /\ Len(SplitSpaces(txt.text, 1)) <= 5 => txt.isShortQuery
    /\ (txt.hasName \/ txt.isShortQuery) => txt.result = txt.text
    /\ ~(txt.hasName \/ txt.isShortQuery) =>
         txt.result = IF extractKeyTerms(txt.text) # <<>>
                      THEN extractKeyTerms(txt.text) ELSE txt.text
    /\ txt.text = tName => txt.hasName /\ txt.result = tName

\* a query of more than five tokens that holds a name has been kept as it is
C23_Witness ==
  /\ Choosing
  /\ txt.text = tLongName
  /\ ~txt.isShortQuery /\ txt.hasName
  /\ txt.result = tLongName

Extracting == txt.op = "extractKeyTerms"

\* C24: extractKeyTerms gives at most ten terms, no two the same, none of
\* them a stop word, and every capitalized token of the text is among them
\* in lower case.
C24_KeyTerms ==
  Extracting =>
    /\ Len(txt.terms) <= TopTerms
    /\ \A j, k \in 1..Len(txt.terms) : j # k => txt.terms[j] # txt.terms[k]
    /\ \A k \in 1..Len(txt.terms) : txt.terms[k] \notin stopWords
    /\ \A tok \in Range(SplitSpaces(RemovePunctuation(txt.text), 1)) :
         IsCapitalized(tok) =>
           \E k \in 1..Len(txt.terms) :
             LowerText(tok) \in Range(SplitSpaces(txt.terms[k], 1))

\* the crawl time a row or an entry of getAllWebsites carries
CrawlTime(r) == IF backend = "milvus" THEN r.crawled_at ELSE r.crawledAt

Listed == sites.status = "ok"

\* C25: getAllWebsites returns exactly one entry per url that has rows, and
\* the entry carries the latest crawl time stored for that url.
C25_OneEntryPerUrlLatest ==
  Listed =>
    /\ { sites.websites[n].url : n \in 1..Len(sites.websites) }
         = { rows[k].url : k \in 1..Len(rows) }
    /\ \A m, n \in 1..Len(sites.websites) :
         m # n => sites.websites[m].url # sites.websites[n].url
    /\ \A n \in 1..Len(sites.websites) : \A k \in 1..Len(rows) :
         rows[k].url = sites.websites[n].url
           => CrawlTime(rows[k]) <= CrawlTime(sites.websites[n])

\* C26: when initializeDatabase returns successfully, whatever earlier calls
\* did or failed to do, the collection exists, its vector index is built and
\* it is loaded; a call that found all this in place has changed nothing.
C26_InitializeEstablishesIndex ==
  \A p \in Procs :
    coll.init[p].pc = "returned" =>
      /\ coll.exists
      /\ backend \in {"milvus", "pgvector"} => coll.indexed
      /\ coll.loaded
      /\ coll.init[p].before = <<TRUE, TRUE, TRUE>>
           => <<coll.exists, coll.indexed, coll.loaded>> = coll.init[p].before

\* C29: two concurrent initializeDatabase calls on a backend without the
\* collection both succeed, and the collection is created once.
C29_ConcurrentInitialize ==
  /\ coll.created <= 1
  /\ \A p \in Procs :
       (coll.init[p].pc = "failed" /\ \E q \in Procs \ {p} : coll.init[q].pc # "idle")
         => coll.init[p].before[1]

\* C27: no step of a retrieval request (knowledge-base search, chat,
\* checkCollectionData) changes what the index stores, and what the index
\* stores only changes within an upsert or a deleteSource call.
C27_RetrievalNoWrites ==
  [][ /\ req' # req => (rows' = rows /\ chromaDim' = chromaDim /\ serial' = serial)
      /\ rows' # rows => call[Caller].op \in {"upsert", "delete"} ]_vars

\* a request has searched an index that holds rows and has answered
C27_Witness ==
  /\ Conversational(req) /\ Finished(req)
  /\ "SEARCH" \in Stages(req)
  /\ rows # <<>>
  /\ req.response.documents # <<>>

KbFinished == req.route = "kb" /\ Finished(req)

\* the body parses, a secret is configured, and the header differs from the
\* signature of the body; Present says when a header counts as present
Rejected(present) ==
  /\ req.input.kind # "unparsable"
  /\ req.input.secret
  /\ present
  /\ req.input.signature # "valid"

OkWithDocuments == req.response.status = 200 /\ req.response.body = "documents"

\* C28: the knowledge-base route answers 401 exactly when the body parses, a
\* secret is configured, a signature header is present and the header is not
\* the signature of the body; every other request ends with 200 and documents.
C28_UnauthorizedIffBadSignature ==
  KbFinished =>
    /\ req.response.status = 401 <=> Rejected(req.input.signature # "none")
    /\ req.response.status # 401 => OkWithDocuments

\* C28, with a header that is present and not empty.
C28_UnauthorizedIffBadNonEmptySignature ==
  KbFinished =>
    /\ req.response.status = 401 <=> Rejected(Truthy(req.input.signature))
    /\ req.response.status # 401 => OkWithDocuments

\* a request with a wrong signature has been turned away
C28_Witness ==
  /\ KbFinished
  /\ req.input = [kind |-> "query", secret |-> TRUE, signature |-> "invalid"]
  /\ req.response.status = 401

\* C30: once a startVoiceChat attempt has failed and its handler has run to
\* the end, the page is idle again: isLoading is false and crawlingStatus is
\* empty, so the input is enabled.
C30_FailedAttemptReturnsIdle ==
  (page.pc = "idle" /\ page.outcome = "failed")
    => ~page.isLoading /\ page.crawlingStatus = ""

\* ------------------------------------------------------- specifications
\* One caller at a time uses the Vector Index.
Next ==
  \/ Tick
  \/ Ack(Caller)
  \/ \E u \in Urls, cs \in ChunkLists : storeWebsiteChunks_Begin(Caller, u, cs)
  \/ storeWebsiteChunks_Insert(Caller)
  \/ storeWebsiteChunks_Flush(Caller)
  \/ \E u \in Urls, cs \in ChunkLists : chromaStoreWebsiteData_Begin(Caller, u, cs)
  \/ chromaStoreWebsiteData_Add(Caller)
  \/ \E u \in Urls, cs \in ChunkLists : storeWebsiteData_Begin(Caller, u, cs)
  \/ storeWebsiteData_Insert(Caller)
  \/ storeWebsiteData_Commit(Caller)
  \/ \E u \in Urls : milvusDeleteWebsiteData(Caller, u)
  \/ \E u \in Urls : chromaDeleteWebsiteData(Caller, u)
  \/ \E q \in Queries, limit \in Limits, thr \in Thresholds :
        searchSimilarContent(Caller, q, limit, thr)
  \/ getAllWebsites(Caller)

Spec == Init /\ [][Next]_vars

\* Two callers use the Vector Index concurrently.
NextConc ==
  \/ Tick
  \/ \E p \in Procs : Ack(p)
  \/ \E p \in Procs, u \in Urls, cs \in ChunkLists : storeWebsiteChunks_Begin(p, u, cs)
  \/ \E p \in Procs : storeWebsiteChunks_Insert(p)
  \/ \E p \in Procs : storeWebsiteChunks_Flush(p)
  \/ \E p \in Procs, u \in Urls, cs \in ChunkLists : chromaStoreWebsiteData_Begin(p, u, cs)
  \/ \E p \in Procs : chromaStoreWebsiteData_Add(p)
  \/ \E p \in Procs, u \in Urls, cs \in ChunkLists : storeWebsiteData_Begin(p, u, cs)
  \/ \E p \in Procs : storeWebsiteData_Insert(p)
  \/ \E p \in Procs : storeWebsiteData_Commit(p)

SpecConc == Init /\ [][NextConc]_vars

\* Retrieval and crawl requests against the Milvus and the Chroma deployment,
\* handled one at a time: a request is taken while no write is under way, and
\* a write is started while no request is in flight.
InitReq == Init /\ backend \in {"milvus", "chroma"}

Quiet == call[Caller].pc = "idle" /\ crawl.pc = "idle" /\ req.pc = "idle"

NextReq ==
  \/ Quiet /\ Tick
  \/ crawl.pc = "idle" /\ Ack(Caller)
  \/ Quiet /\ \E u \in Urls, cs \in ChunkLists : storeWebsiteChunks_Begin(Caller, u, cs)
  \/ storeWebsiteChunks_Insert(Caller)
  \/ storeWebsiteChunks_Flush(Caller)
  \/ Quiet /\ \E body \in KbBodies, secret \in BOOLEAN,
                 signature \in {"none", "", "valid", "invalid"} :
                 kbPOST_Begin(body, secret, signature)
  \/ \E f \in SUBSET HealthCalls : kbPOST_Health(f)
  \/ kbPOST_Embed
  \/ kbPOST_Search
  \/ Quiet /\ \E message \in QueryTexts \cup {<<>>}, maxResults \in Limits,
                 similarityThreshold \in Thresholds :
                 chatPOST_Begin(message, maxResults, similarityThreshold)
  \/ chatPOST_Embed
  \/ chatPOST_Search
  \/ chatPOST_Answer
  \/ Quiet /\ \E f \in SUBSET HealthCalls : checkCollectionData(f)
  \/ requestDone
  \/ Quiet /\ \E u \in Urls \cup {""} : crawlPOST_Begin(u)
  \/ crawlPOST_Fetch
  \/ crawlPOST_Process
  \/ crawlPOST_Store
  \/ chromaStoreWebsiteData_Add(Caller)
  \/ crawlPOST_Stored
  \/ crawlPOST_Fallback
  \/ crawlPOST_FallbackStored
  \/ crawlDone

SpecReq == InitReq /\ [][NextReq]_vars

\* The query functions of the knowledge-base route, applied to a text.
InitText == Init /\ backend = "milvus"

NextText ==
  \/ \E t \in Texts : applyCleanQuery(t)
  \/ \E t \in Questions \cup {tManyTerms} : applyExtractKeyTerms(t)
  \/ \E t \in Questions : applySearchQuery(t)
  \/ textDone

SpecText == InitText /\ [][NextText]_vars

\* initializeDatabase, one call at a time.
InitOne == Init /\ backend \in InitBackends

NextInit ==
  \/ initializeDatabase_Begin(Caller)
  \/ initializeDatabase_Check(Caller)
  \/ initializeDatabase_Create(Caller)
  \/ initializeDatabase_Index(Caller)
  \/ initializeDatabase_IsLoaded(Caller)
  \/ initializeDatabase_Load(Caller)
  \/ initializeDatabase_Throw(Caller)
  \/ initializeDatabase_Done(Caller)

SpecInit == InitOne /\ [][NextInit]_vars

\* initializeDatabase called by two crawl requests at a time.
NextInitConc ==
  \E p \in Procs :
    \/ initializeDatabase_Begin(p)
    \/ initializeDatabase_Check(p)
    \/ initializeDatabase_Create(p)
    \/ initializeDatabase_Index(p)
    \/ initializeDatabase_IsLoaded(p)
    \/ initializeDatabase_Load(p)
    \/ initializeDatabase_Done(p)

SpecInitConc == InitOne /\ [][NextInitConc]_vars

\* The homepage.
InitPage == Init /\ backend = "chroma"

NextPage ==
  \/ \E u \in PageUrls : setUrl(u)
  \/ startVoiceChat_Begin
  \/ startVoiceChat_Validate
  \/ startVoiceChat_Fetch
  \/ startVoiceChat_Catch
  \/ startVoiceChat_Redirect

SpecPage == InitPage /\ [][NextPage]_vars
====
